---- MODULE Spec2Model ----
(***************************************************************************)
(* A model of regtidy (clearnear): the cleanup policy engine               *)
(* (src/src/strategy.rs), the tag resolver (src/src/registry.rs) and the   *)
(* clean command's executor loop (src/src/main.rs).                        *)
(*                                                                         *)
(* Three specifications share the definitions below:                      *)
(*   SpecApply  Strategy::apply as a pure function of (strategy, tags,    *)
(*              clock), inputs drawn from bounded sets;                    *)
(*   Spec       one run of the clean command, from the parsed command line *)
(*              to the process exit;                                       *)
(*   SpecGate   resolve_all_tags on a repository with more tags than the   *)
(*              semaphore has permits.                                     *)
(***************************************************************************)
EXTENDS Integers, Sequences, FiniteSets

VARIABLES
    base_url,       \* RegistryClient.base_url (unset, <<>>, before RegistryClient::new)
    server,         \* the pages the registry serves for a listing
    pager,          \* the listing under way: its function, url, items so far, result
    cli,            \* the parsed command line: cli.registry, cli.repo and the clean
                    \* command's args
    repos,          \* run: the repositories to process
    catalog_requests,   \* number of GET /v2/_catalog requests sent
    strategy,       \* the Strategy built from the command line (None before)
    dry_run,        \* args.dry_run
    pc,             \* position of the main control flow
    ri,             \* index of the repository being processed (for repo in repos)
    regTags,        \* the registry's tags of the current repository: what is really stored
    tags,           \* resolve_all_tags: the names list_tags returned
    si,             \* resolve_all_tags: number of tasks spawned so far
    permits,        \* resolve_all_tags: permits left in the semaphore
    tpc,            \* per task: "idle" (not spawned), "running", "done"
    tnet,           \* per task: what each of its requests answered
    tres,           \* per task: the Result<TagInfo> it returned
    ji,             \* resolve_all_tags: number of handles joined so far
    infos,          \* the resolved tags (resolve_all_tags' infos; apply's input)
    clock,          \* the value Utc::now() returned to apply (OlderThan only)
    plan,           \* the CleanupPlan apply returned
    warnings,       \* the [WARN] lines apply wrote
    digests_to_delete,          \* run_clean: unique digests of plan.to_delete
    di,                         \* run_clean: number of delete requests answered
    deleted_digests_this_repo,  \* run_clean
    delete_requests,            \* every delete_manifest call made, in order
    total_deleted,
    total_kept,
    total_errors,
    all_deleted_digests,
    faults,         \* number of failed units of work so far: tag listings, tag
                    \* resolutions and deletions that returned an error
    exit_code       \* <<>> while running, <<0>> or <<1>> at the end

vars == <<base_url, server, pager, cli, repos, catalog_requests, strategy, dry_run, pc, ri, regTags, tags, si, permits, tpc, tnet, tres,
          ji, infos, clock, plan, warnings, digests_to_delete, di,
          deleted_digests_this_repo, delete_requests, total_deleted, total_kept,
          total_errors, all_deleted_digests, faults, exit_code>>

----------------------------------------------------------------------------
(* Bounds of the model *)

\* longest tag sequence handed to apply in SpecApply
MaxApplyTags == 3
\* creation times are 0..MaxTick, in ticks (sub-second units)
MaxTick == 2
\* ticks per second: chrono's DateTime has sub-second precision, timestamp() has not
TicksPerSecond == 2
\* KeepRecent(n), n in 0..MaxKeep
MaxKeep == 3
\* OlderThan(days), days in 0..MaxDays
MaxDays == 1

\* most tags in a repository of a run
MaxTags == 2
\* most failed units of work (tag listings, tag resolutions, deletions) in a run
MaxFaults == 2
\* most tags in a repository under SpecGate
GateTags == 11

(* Program constants *)

\* Semaphore::new(10)
Permits == 10

\* chrono::Duration::days
SecondsPerDay == 86400

----------------------------------------------------------------------------
(* Data model: src/src/models.rs *)

\* Option<T>: None is <<>>, Some(x) is <<x>>
None == <<>>
Some(x) == <<x>>
IsSome(o) == Len(o) = 1
Unwrap(o) == o[1]

\* Result<T>
Ok(x) == [ok |-> TRUE, val |-> <<x>>]
Err == [ok |-> FALSE, val |-> <<>>]

Min(a, b) == IF a <= b THEN a ELSE b
Range(s) == { s[i] : i \in DOMAIN s }

\* tag names are strings, modelled as sequences of characters
TagNames == { <<"d", "v">>, <<"v", "d">> }
Digests == { "sha-a", "sha-b" }
Ticks == 0 .. MaxTick
Created == { None } \cup { Some(t) : t \in Ticks }

TagInfo(repo, tag, digest, created) ==
    [repository |-> repo, tag |-> tag, digest |-> digest, created |-> created]

CleanupPlan(repo, to_delete, to_keep) ==
    [repository |-> repo, to_delete |-> to_delete, to_keep |-> to_keep]

----------------------------------------------------------------------------
(* Strategy: src/src/strategy.rs *)

KeepRecent(n) == [kind |-> "KeepRecent", n |-> n]
OlderThan(days) == [kind |-> "OlderThan", days |-> days]
Pattern(re) == [kind |-> "Pattern", re |-> re]

\* A regex of the class ^?literal: Regex::is_match searches the name for the
\* literal, at the start only when anchored.
Regex(anchored, lit) == [anchored |-> anchored, lit |-> lit]

is_match(re, s) ==
    \E i \in 1 .. (Len(s) - Len(re.lit) + 1) :
        /\ re.anchored => i = 1
        /\ SubSeq(s, i, i + Len(re.lit) - 1) = re.lit

\* DateTime::timestamp(): whole seconds, the sub-second part dropped
timestamp(t) == t \div TicksPerSecond

\* mutant of sort_key: unknown sorts as newest (unwrap_or(i64::MAX))
sort_key_unknown_newest(tag) ==
    IF IsSome(tag.created) THEN timestamp(Unwrap(tag.created)) ELSE MaxTick + 1

\* the sort key of KeepRecent: created.map(timestamp).unwrap_or(i64::MIN);
\* i64::MIN is below every timestamp, as -1 is below every timestamp here
sort_key(tag) == IF IsSome(tag.created) THEN timestamp(Unwrap(tag.created)) ELSE -1

\* Vec::sort_by is stable; the comparator b_time.cmp(&a_time) sorts descending
RECURSIVE insert_desc(_, _)
insert_desc(x, s) ==
    IF s = <<>> THEN <<x>>
    ELSE IF sort_key(Head(s)) >= sort_key(x)
         THEN <<Head(s)>> \o insert_desc(x, Tail(s))
         ELSE <<x>> \o s

RECURSIVE sort_by_created_desc(_)
sort_by_created_desc(s) ==
    IF s = <<>> THEN <<>>
    ELSE insert_desc(s[Len(s)], sort_by_created_desc(SubSeq(s, 1, Len(s) - 1)))

\* mutant of KeepRecentSplit: the kept tags are copied, not drained, out of tags
KeepRecentSplit_NoDrain(n, tgs) ==
    LET sorted == sort_by_created_desc(tgs)
        keep_count == Min(n, Len(sorted))
    IN  [to_keep |-> SubSeq(sorted, 1, keep_count), to_delete |-> sorted]

\* mutant of KeepRecentSplit: keeps one tag too many
KeepRecentSplit_OffByOne(n, tgs) ==
    LET sorted == sort_by_created_desc(tgs)
        keep_count == Min(n + 1, Len(sorted))
    IN  [to_keep |-> SubSeq(sorted, 1, keep_count),
         to_delete |-> SubSeq(sorted, keep_count + 1, Len(sorted))]

\* the KeepRecent arm: sort, keep the first min(n, len), delete the rest
KeepRecentSplit(n, tgs) ==
    LET sorted == sort_by_created_desc(tgs)
        keep_count == Min(n, Len(sorted))
    IN  [to_keep |-> SubSeq(sorted, 1, keep_count),
         to_delete |-> SubSeq(sorted, keep_count + 1, Len(sorted))]

\* cutoff = Utc::now() - Duration::days(days)
Cutoff(now, days) == now - days * SecondsPerDay * TicksPerSecond

\* mutant of IsOlder: a tag created exactly at the cutoff counts as older
IsOlder_Inclusive(created, cutoff) == IsSome(created) /\ Unwrap(created) <= cutoff

\* Some(created) if created < cutoff
IsOlder(created, cutoff) == IsSome(created) /\ Unwrap(created) < cutoff

\* mutant of OlderThanSplit: a tag of unknown age counts as old
OlderThanSplit_UnknownOld(days, now, tgs) ==
    LET cutoff == Cutoff(now, days)
        del(t) == ~IsSome(t.created) \/ IsOlder(t.created, cutoff)
        keep(t) == IsSome(t.created) /\ ~IsOlder(t.created, cutoff)
    IN  [to_delete |-> SelectSeq(tgs, del), to_keep |-> SelectSeq(tgs, keep)]

\* the OlderThan arm: `for tag in tags`, pushed to to_delete or to to_keep in order
OlderThanSplit(days, now, tgs) ==
    LET cutoff == Cutoff(now, days)
        del(t) == IsOlder(t.created, cutoff)
        keep(t) == ~IsOlder(t.created, cutoff)
    IN  [to_delete |-> SelectSeq(tgs, del), to_keep |-> SelectSeq(tgs, keep)]

\* mutant of PatternSplit: the branches swapped
PatternSplit_Swapped(re, tgs) ==
    LET del(t) == ~is_match(re, t.tag)
        keep(t) == is_match(re, t.tag)
    IN  [to_delete |-> SelectSeq(tgs, del), to_keep |-> SelectSeq(tgs, keep)]

\* the Pattern arm
PatternSplit(re, tgs) ==
    LET del(t) == is_match(re, t.tag)
        keep(t) == ~is_match(re, t.tag)
    IN  [to_delete |-> SelectSeq(tgs, del), to_keep |-> SelectSeq(tgs, keep)]

\* the match on self
Tentative(s, now, tgs) ==
    CASE s.kind = "KeepRecent" -> KeepRecentSplit(s.n, tgs)
      [] s.kind = "OlderThan" -> OlderThanSplit(s.days, now, tgs)
      [] s.kind = "Pattern" -> PatternSplit(s.re, tgs)

DigestsOf(s) == { s[i].digest : i \in DOMAIN s }

\* mutant of SafetyStep: no tag is rescued
SafetyStep_NoRescue(acc, tag, keep_digests) ==
    [acc EXCEPT !.safe_delete = Append(@, tag)]

\* mutant of SafetyStep: warned_digests is never filled
SafetyStep_NoWarnedSet(acc, tag, keep_digests) ==
    IF tag.digest \in keep_digests
    THEN [acc EXCEPT
            !.warnings = Append(@, [first |-> TRUE, digest |-> tag.digest,
                                    tag |-> tag.tag]),
            !.to_keep = Append(@, tag)]
    ELSE [acc EXCEPT !.safe_delete = Append(@, tag)]

\* one iteration of `for tag in to_delete.drain(..)`
SafetyStep(acc, tag, keep_digests) ==
    IF tag.digest \in keep_digests
    THEN [acc EXCEPT
            !.warnings = Append(@, [first |-> tag.digest \notin acc.warned_digests,
                                    digest |-> tag.digest, tag |-> tag.tag]),
            !.warned_digests = @ \cup {tag.digest},
            !.to_keep = Append(@, tag)]
    ELSE [acc EXCEPT !.safe_delete = Append(@, tag)]

RECURSIVE SafetyLoop(_, _, _)
SafetyLoop(acc, to_delete, keep_digests) ==
    IF to_delete = <<>> THEN acc
    ELSE SafetyLoop(SafetyStep(acc, Head(to_delete), keep_digests),
                    Tail(to_delete), keep_digests)

\* mutant of SafetyPass: keep_digests is left empty
SafetyPass_NoKeepDigests(to_delete, to_keep) ==
    SafetyLoop([to_keep |-> to_keep, safe_delete |-> <<>>,
                warned_digests |-> {}, warnings |-> <<>>],
               to_delete, {})

\* the shared-digest safety pass
SafetyPass(to_delete, to_keep) ==
    SafetyLoop([to_keep |-> to_keep, safe_delete |-> <<>>,
                warned_digests |-> {}, warnings |-> <<>>],
               to_delete, DigestsOf(to_keep))

\* Strategy::apply: the plan it returns and the warnings it writes
Apply(s, repo, now, tgs) ==
    LET t == Tentative(s, now, tgs)
        r == SafetyPass(t.to_delete, t.to_keep)
    IN  [plan |-> CleanupPlan(repo, r.safe_delete, r.to_keep), warnings |-> r.warnings]

----------------------------------------------------------------------------
(* The command line: src/src/cli.rs, and the Strategy built from it *)

\* CleanArgs: at most one of keep, older_than and pattern is given (they form
\* one clap group); args.dry_run is the variable dry_run
CleanArgs(keep, older_than, pattern) ==
    [keep |-> keep, older_than |-> older_than, pattern |-> pattern]

\* strings that are taken apart are sequences of characters
Http == <<"h", "t", "t", "p", ":", "/", "/">>
Https == <<"h", "t", "t", "p", "s", ":", "/", "/">>
RegistryUrl == <<"h", "t", "t", "p", ":", "/", "/", "h">>

\* Cli: the registry URL, the optional repository name and the clean command's
\* arguments
Cli(repo, args) == [registry |-> RegistryUrl, repo |-> repo, args |-> args]

\* an AppError
AppError(e) == [ok |-> FALSE, val |-> <<>>, err |-> e]

\* Regex::new on a pattern of the class ^?literal, written as a sequence of
\* characters: a leading ^ anchors the literal at the start of the name; a
\* pattern with a group opened and never closed does not compile
RegexNew(pat) ==
    IF \E i \in DOMAIN pat : pat[i] = "("
    THEN AppError("InvalidPattern")
    ELSE IF pat # <<>> /\ pat[1] = "^"
    THEN Ok(Regex(TRUE, Tail(pat)))
    ELSE Ok(Regex(FALSE, pat))

\* Strategy::from_args(args), called at the start of run_clean (the body is
\* that of Strategy::from_cli)
from_args(args) ==
    IF IsSome(args.keep) THEN Ok(KeepRecent(Unwrap(args.keep)))
    ELSE IF IsSome(args.older_than) THEN Ok(OlderThan(Unwrap(args.older_than)))
    ELSE IF IsSome(args.pattern)
    THEN LET re == RegexNew(Unwrap(args.pattern))
         IN  IF re.ok THEN Ok(Pattern(Unwrap(re.val))) ELSE re
    ELSE AppError("NoStrategy")

----------------------------------------------------------------------------
(* The gateway's URLs and paginated listings: src/src/registry.rs *)

\* str::starts_with
starts_with(str, prefix) ==
    Len(str) >= Len(prefix) /\ SubSeq(str, 1, Len(prefix)) = prefix

\* str::trim_end_matches(ch)
RECURSIVE trim_end_matches(_, _)
trim_end_matches(str, ch) ==
    IF str # <<>> /\ str[Len(str)] = ch
    THEN trim_end_matches(SubSeq(str, 1, Len(str) - 1), ch)
    ELSE str

\* RegistryClient::new: the base_url it stores
NewClient(registry) == trim_end_matches(registry, "/")

\* mutant of resolve_url: only http:// marks an absolute URL
resolve_url_HttpOnly(base, path) ==
    IF starts_with(path, Http) THEN path ELSE base \o path

\* RegistryClient::resolve_url
resolve_url(base, path) ==
    IF starts_with(path, Http) \/ starts_with(path, Https)
    THEN path
    ELSE base \o path

\* the rel parameter of a Link header, one token each
RelNext == "rel=next"
RelPrev == "rel=prev"

\* a Link header of one link-value: <target>; rel
LinkHeader(target, rel) == <<"<">> \o target \o <<">", ";", " ", rel>>

\* str::find(ch): the first position of ch, 0 when there is none
Find(str, ch) ==
    IF \E i \in DOMAIN str : str[i] = ch
    THEN CHOOSE i \in DOMAIN str : str[i] = ch /\ \A j \in 1 .. (i - 1) : str[j] # ch
    ELSE 0

\* mutant of parse_next_link: the rel parameter is not looked at
parse_next_link_AnyRel(link) ==
    IF ~IsSome(link) THEN None
    ELSE LET h == Unwrap(link)
         IN  IF Find(h, "<") = 0 \/ Find(h, ">") = 0 THEN None
             ELSE Some(SubSeq(h, Find(h, "<") + 1, Find(h, ">") - 1))

\* RegistryClient::parse_next_link on the Link header of a response (None:
\* no such header): with rel="next" in it, the text between the first < and
\* the first >
parse_next_link(link) ==
    IF ~IsSome(link) THEN None
    ELSE LET h == Unwrap(link)
         IN  IF ~(\E i \in DOMAIN h : h[i] = RelNext) THEN None
             ELSE IF Find(h, "<") = 0 THEN None
             ELSE IF Find(h, ">") = 0 THEN None
             ELSE Some(SubSeq(h, Find(h, "<") + 1, Find(h, ">") - 1))

\* mutant of extend: the page's items replace those gathered so far
extend_Overwrite(acc, items) == items

\* Vec::extend
extend(acc, items) == acc \o items

\* format!("{}/v2/_catalog", base_url) and format!("{}/v2/{}/tags/list",
\* base_url, repo), the repository being r1
FirstUrl(fn, base) ==
    IF fn = "list_repositories"
    THEN base \o <<"/", "v", "2", "/", "_", "c", "a", "t", "a", "l", "o", "g">>
    ELSE base \o <<"/", "v", "2", "/", "r", "1", "/", "t", "a", "g", "s", "/", "l", "i", "s", "t">>

\* the relative form and the absolute form of the URL of page k, k > 1
Digit(k) == <<"0", "1", "2", "3", "4", "5", "6", "7", "8", "9">>[k + 1]
PagePath(k) == <<"/", "p", Digit(k)>>
PageUrl(fn, k) == IF k = 1 THEN FirstUrl(fn, RegistryUrl) ELSE RegistryUrl \o PagePath(k)

\* page k of a listing: where it is served, its items (None: "tags": null),
\* and its Link header, by kind: "rel" and "abs" name page k + 1 as next,
\* relative or absolute; "prev" names the page before as previous;
\* "prev_next" names both, the previous page first; "none": no header
Page(fn, k, items, kind) ==
    LET before == PageUrl(fn, IF k > 1 THEN k - 1 ELSE 1)
    IN  [url |-> PageUrl(fn, k),
         items |-> items,
         kind |-> kind,
         link |-> CASE kind = "rel" -> Some(LinkHeader(PagePath(k + 1), RelNext))
                    [] kind = "abs" -> Some(LinkHeader(PageUrl(fn, k + 1), RelNext))
                    [] kind = "prev" -> Some(LinkHeader(before, RelPrev))
                    [] kind = "prev_next" ->
                        Some(LinkHeader(before, RelPrev) \o <<",", " ">>
                                \o LinkHeader(PagePath(k + 1), RelNext))
                    [] OTHER -> None]

\* the listing's locals and its result (None while the loop runs)
Pager(fn, url, acc, fetched, result) ==
    [fn |-> fn, url |-> url, acc |-> acc, fetched |-> fetched, result |-> result]

NoPager == Pager("", <<>>, <<>>, <<>>, None)

\* the gateway's variables outside a listing
GatewayIdle ==
    /\ base_url = NewClient(RegistryUrl)
    /\ server = <<>>
    /\ pager = NoPager

----------------------------------------------------------------------------
(* The state outside a call of apply, as run_clean's locals start *)

NoPlan == CleanupPlan("", <<>>, <<>>)

RunLocalsInit ==
    /\ ri = 1
    /\ regTags = <<>>
    /\ tags = <<>>
    /\ si = 0
    /\ permits = 0
    /\ tpc = <<>>
    /\ tnet = <<>>
    /\ tres = <<>>
    /\ ji = 0
    /\ clock = None
    /\ plan = NoPlan
    /\ warnings = <<>>
    /\ digests_to_delete = <<>>
    /\ di = 0
    /\ deleted_digests_this_repo = {}
    /\ delete_requests = <<>>
    /\ total_deleted = 0
    /\ total_kept = 0
    /\ total_errors = 0
    /\ all_deleted_digests = {}
    /\ faults = 0
    /\ exit_code = None

----------------------------------------------------------------------------
(* SpecApply: Strategy::apply on every input of the bounded sets *)

Regexes == { Regex(TRUE, <<"d">>), Regex(FALSE, <<"d">>),
             Regex(FALSE, <<"v", "d">>), Regex(FALSE, <<"x">>) }

Strategies ==
    { KeepRecent(n) : n \in 0 .. MaxKeep }
        \cup { OlderThan(d) : d \in 0 .. MaxDays }
        \cup { Pattern(re) : re \in Regexes }

ApplyTagInfos == { TagInfo("r1", t, d, c) : t \in TagNames, d \in Digests, c \in Created }

\* apply compares digests by equality only, so its inputs are taken up to a
\* renaming of the digests: the first tag's digest is FirstDigest
FirstDigest == "sha-a"

ApplyInputs ==
    { s \in UNION { [1 .. n -> ApplyTagInfos] : n \in 0 .. MaxApplyTags } :
          s # <<>> => s[1].digest = FirstDigest }

\* the instants Utc::now() may return: MaxDays days after a tick later than the first
NowSet == { MaxDays * SecondsPerDay * TicksPerSecond + c : c \in 1 .. MaxTick }

\* Utc::now() is read in the OlderThan arm only
ClockReads(s) == IF s.kind = "OlderThan" THEN { Some(now) : now \in NowSet } ELSE { None }

NowOf(c) == IF IsSome(c) THEN Unwrap(c) ELSE 0

\* the patterns of Regexes, as written on the command line
Patterns == { <<"^", "d">>, <<"d">>, <<"v", "d">>, <<"x">> }

\* the arguments that select the strategies of Strategies
ApplyArgs ==
    { CleanArgs(Some(n), None, None) : n \in 0 .. MaxKeep }
        \cup { CleanArgs(None, Some(d), None) : d \in 0 .. MaxDays }
        \cup { CleanArgs(None, None, Some(p)) : p \in Patterns }

InitApply ==
    /\ strategy \in Strategies
    /\ \E a \in ApplyArgs : from_args(a) = Ok(strategy) /\ cli = Cli(Some("r1"), a)
    /\ repos = <<"r1">>
    /\ catalog_requests = 0
    /\ dry_run = TRUE
    /\ infos \in ApplyInputs
    /\ pc = "apply"
    /\ GatewayIdle
    /\ RunLocalsInit

\* let plan = strategy.apply(repo, tags)
ApplyStep ==
    /\ pc = "apply"
    /\ \E c \in ClockReads(strategy) :
        LET a == Apply(strategy, "r1", NowOf(c), infos)
        IN  /\ clock' = c
            /\ plan' = a.plan
            /\ warnings' = a.warnings
    /\ pc' = "applied"
    /\ UNCHANGED <<base_url, server, pager, cli, repos, catalog_requests, strategy, dry_run, ri, regTags, tags, si, permits, tpc, tnet, tres,
                   ji, infos, digests_to_delete, di, deleted_digests_this_repo,
                   delete_requests, total_deleted, total_kept, total_errors,
                   all_deleted_digests, faults, exit_code>>

\* a second call of apply with the same strategy and the same tags
ApplyAgain ==
    /\ pc = "applied"
    /\ \E c \in ClockReads(strategy) :
        LET a == Apply(strategy, "r1", NowOf(c), infos)
        IN  /\ clock' = c
            /\ plan' = a.plan
            /\ warnings' = a.warnings
    /\ pc' = "reapplied"
    /\ UNCHANGED <<base_url, server, pager, cli, repos, catalog_requests, strategy, dry_run, ri, regTags, tags,
                   si, permits, tpc, tnet, tres, ji, infos, digests_to_delete, di,
                   deleted_digests_this_repo, delete_requests, total_deleted,
                   total_kept, total_errors, all_deleted_digests, faults, exit_code>>

NextApply == ApplyStep \/ ApplyAgain

SpecApply == InitApply /\ [][NextApply]_vars

----------------------------------------------------------------------------
(* The registry, as the requests of src/src/registry.rs see it *)

\* the repositories of the run (run_clean's repos)
Repos == <<"r1", "r2">>

\* the answers of one task's requests: each "ok", "fail" or "unsent"
Net(digest, manifest, config) == [digest |-> digest, manifest |-> manifest, config |-> config]

\* the ways the requests of resolve_tag_info can go for a tag whose manifest has
\* this config: get_digest, then get_manifest, then get_image_config when the
\* manifest has a config; `?` returns at the first failure of the first two
NetOutcomes(config) ==
    { Net("fail", "unsent", "unsent"), Net("ok", "fail", "unsent") }
        \cup (IF IsSome(config)
              THEN { Net("ok", "ok", "ok"), Net("ok", "ok", "fail") }
              ELSE { Net("ok", "ok", "unsent") })

\* a tag of the registry: its name, the digest of the manifest it points to, the
\* manifest's config: None (no config), Some(None) (a config without a created
\* field) or Some(Some(t)); and the ways the registry answers the requests for
\* it (a subset of NetOutcomes(config))
RegEntry(tag, digest, config, answers) ==
    [tag |-> tag, digest |-> digest, config |-> config, answers |-> answers]

RunNames == <<<<"d", "v">>, <<"v", "d">>, <<"x">>>>
RunConfigs == { None, Some(None), Some(Some(0)), Some(Some(MaxTick)) }

\* the tag lists a repository of the run may hold: at most MaxTags tags, of
\* distinct names, any request for which may fail
RunContents ==
    UNION { { [i \in 1 .. n |-> RegEntry(RunNames[i], d[i], c[i], NetOutcomes(c[i]))] :
                  d \in [1 .. n -> Digests], c \in [1 .. n -> RunConfigs] } :
            n \in 0 .. Min(MaxTags, Len(RunNames)) }

\* mutant of resolve_tag_info: a failed get_manifest is treated as a manifest
\* without config
resolve_tag_info_IgnoresManifest(repo, e, net) ==
    IF net.digest # "ok" THEN Err
    ELSE Ok(TagInfo(repo, e.tag, e.digest, None))

\* mutant of resolve_tag_info: the image-config fetch is followed by `?`
resolve_tag_info_ConfigFatal(repo, e, net) ==
    IF net.digest # "ok" THEN Err
    ELSE IF net.manifest # "ok" THEN Err
    ELSE IF IsSome(e.config) /\ net.config # "ok" THEN Err
    ELSE Ok(TagInfo(repo, e.tag, e.digest,
                    IF IsSome(e.config) THEN Unwrap(e.config) ELSE None))

\* resolve_tag_info(repo, tag), the tag being entry e of the registry and its
\* requests answering as net
resolve_tag_info(repo, e, net) ==
    IF net.digest # "ok" THEN Err
    ELSE IF net.manifest # "ok" THEN Err
    ELSE LET created ==
                 IF IsSome(e.config)
                 THEN (IF net.config = "ok" THEN Unwrap(e.config) ELSE None)
                 ELSE None
         IN  Ok(TagInfo(repo, e.tag, e.digest, created))

\* the registry's entry of a tag name
EntryOf(reg, name) == CHOOSE e \in Range(reg) : e.tag = name

\* DELETE of a manifest by digest removes every tag pointing at it
RegistryDelete(reg, digest) ==
    LET stays(e) == e.digest # digest IN SelectSeq(reg, stays)

----------------------------------------------------------------------------
(* resolve_all_tags: src/src/registry.rs *)

\* mutant of CanAcquire: the spawn loop does not wait for a permit
CanAcquire_NoWait(p) == TRUE

\* acquire_owned().await returns when a permit is left
CanAcquire(p) == p > 0

InFlight == { i \in DOMAIN tpc : tpc[i] = "running" }

\* the per-iteration locals of run_clean's loop and of resolve_all_tags
ResetLocals ==
    /\ si' = 0
    /\ ji' = 0
    /\ infos' = <<>>
    /\ clock' = None
    /\ plan' = NoPlan
    /\ warnings' = <<>>
    /\ digests_to_delete' = <<>>
    /\ di' = 0
    /\ deleted_digests_this_repo' = {}

\* the end of one iteration of `for repo in repos`: the next repository's
\* resolve_all_tags starts, or the loop ends: print_summary, and exit(1) when
\* total_errors > 0
NextRepoOrFinish(errors) ==
    IF ri < Len(repos)
    THEN ri' = ri + 1 /\ pc' = "list_tags" /\ exit_code' = None
    ELSE ri' = ri /\ pc' = "exit" /\ exit_code' = Some(IF errors > 0 THEN 1 ELSE 0)

\* mutant of AfterResolveError: the error is returned by `?` and ends the run
AfterResolveError_Abort(errors) ==
    ri' = ri /\ pc' = "exit" /\ exit_code' = Some(1)

\* Err(e) of resolve_all_tags in run_clean: counted, then `continue`
AfterResolveError(errors) == NextRepoOrFinish(errors)

\* list_tags answers. On failure resolve_all_tags returns the error and
\* run_clean counts it and goes on; an empty list returns Ok(empty) at once;
\* otherwise the semaphore is created and the spawn loop starts.
ListTagsStep(contents, maxFaults) ==
    /\ pc = "list_tags"
    /\ ResetLocals
    /\ \/ /\ faults < maxFaults
          /\ faults' = faults + 1
          /\ total_errors' = total_errors + 1
          /\ AfterResolveError(total_errors + 1)
          /\ regTags' = <<>>
          /\ tags' = <<>>
          /\ permits' = 0
          /\ tpc' = <<>>
          /\ tnet' = <<>>
          /\ tres' = <<>>
       \/ \E content \in contents :
             /\ regTags' = content
             /\ tags' = [i \in DOMAIN content |-> content[i].tag]
             /\ tpc' = [i \in DOMAIN content |-> "idle"]
             /\ tnet' = [i \in DOMAIN content |-> Net("unsent", "unsent", "unsent")]
             /\ tres' = [i \in DOMAIN content |-> Err]
             /\ permits' = IF content = <<>> THEN 0 ELSE Permits
             /\ pc' = IF content = <<>> THEN "plan" ELSE "spawn"
             /\ UNCHANGED <<ri, exit_code, faults, total_errors>>
    /\ UNCHANGED <<base_url, server, pager, cli, repos, catalog_requests, strategy, dry_run, delete_requests, total_deleted, total_kept,
                   all_deleted_digests>>

\* one iteration of `for tag in &tags`: a permit is acquired, then the task is spawned
Spawn ==
    /\ pc = "spawn"
    /\ CanAcquire(permits)
    /\ permits' = permits - 1
    /\ si' = si + 1
    /\ tpc' = [tpc EXCEPT ![si + 1] = "running"]
    /\ pc' = IF si + 1 = Len(tags) THEN "join" ELSE "spawn"
    /\ UNCHANGED <<base_url, server, pager, cli, repos, catalog_requests, strategy, dry_run, ri, regTags, tags, tnet, tres, ji, infos, clock,
                   plan, warnings, digests_to_delete, di, deleted_digests_this_repo,
                   delete_requests, total_deleted, total_kept, total_errors,
                   all_deleted_digests, faults, exit_code>>

\* mutant of PermitsAfterTask: the permit is dropped on the Ok path only
PermitsAfterTask_LeakOnError(p, result) == IF result.ok THEN p + 1 ELSE p

\* drop(permit) after resolve_tag_info returned, whatever it returned
PermitsAfterTask(p, result) == p + 1

\* a spawned task: resolve_tag_info to its end, then drop(permit). Its requests
\* read registry state that nothing changes while tasks run, so they are one step.
TaskRun(i, maxFaults) ==
    /\ tpc[i] = "running"
    /\ \E net \in EntryOf(regTags, tags[i]).answers :
          LET result == resolve_tag_info(repos[ri], EntryOf(regTags, tags[i]), net)
          IN  /\ ~result.ok => faults < maxFaults
              /\ faults' = IF result.ok THEN faults ELSE faults + 1
              /\ tnet' = [tnet EXCEPT ![i] = net]
              /\ tres' = [tres EXCEPT ![i] = result]
              /\ permits' = PermitsAfterTask(permits, result)
    /\ tpc' = [tpc EXCEPT ![i] = "done"]
    /\ UNCHANGED <<base_url, server, pager, cli, repos, catalog_requests, strategy, dry_run, pc, ri, regTags, tags, si, ji, infos, clock,
                   plan, warnings, digests_to_delete, di, deleted_digests_this_repo,
                   delete_requests, total_deleted, total_kept, total_errors,
                   all_deleted_digests, exit_code>>

\* mutant of JoinPush: the record is put in front
JoinPush_Front(acc, result) == IF result.ok THEN <<Unwrap(result.val)>> \o acc ELSE acc

\* the body of `for handle in handles` for a result
JoinPush(acc, result) == IF result.ok THEN Append(acc, Unwrap(result.val)) ELSE acc

\* mutant of HandleReady: the result is taken without awaiting the task
HandleReady_NoWait(state) == TRUE

\* handle.await returns once the task has finished
HandleReady(state) == state = "done"

\* one iteration of `for handle in handles`: handle.await returns once the task
\* has finished; Ok(infos) is returned after the last one
Join ==
    /\ pc = "join"
    /\ HandleReady(tpc[ji + 1])
    /\ infos' = JoinPush(infos, tres[ji + 1])
    /\ ji' = ji + 1
    /\ pc' = IF ji + 1 = Len(tags) THEN "plan" ELSE "join"
    /\ UNCHANGED <<base_url, server, pager, cli, repos, catalog_requests, strategy, dry_run, ri, regTags, tags, si, permits, tpc, tnet, tres,
                   clock, plan, warnings, digests_to_delete, di,
                   deleted_digests_this_repo, delete_requests, total_deleted,
                   total_kept, total_errors, all_deleted_digests, faults, exit_code>>

----------------------------------------------------------------------------
(* run_clean: src/src/main.rs *)

\* mutant of DeleteCandidates: every tag of the plan
DeleteCandidates_WholePlan(p) == p.to_delete \o p.to_keep

\* `for tag in &plan.to_delete`: the tags whose digests are collected for deletion
DeleteCandidates(p) == p.to_delete

\* mutant of DigestsToDelete: every tag's digest is pushed, seen or not
DigestsToDelete_NoDedup(to_delete) ==
    [i \in DOMAIN to_delete |-> to_delete[i].digest]

\* the unique digests of plan.to_delete, in order of first occurrence
RECURSIVE DigestsToDelete(_)
DigestsToDelete(to_delete) ==
    IF to_delete = <<>> THEN <<>>
    ELSE LET front == DigestsToDelete(SubSeq(to_delete, 1, Len(to_delete) - 1))
             d == to_delete[Len(to_delete)].digest
         IN  IF d \in Range(front) THEN front ELSE Append(front, d)

DeleteRequest(repo, digest) == [repo |-> repo, digest |-> digest]

\* "Only count tags whose digests were actually deleted"
CountDeleted(to_delete, deleted) ==
    Cardinality({ i \in DOMAIN to_delete : to_delete[i].digest \in deleted })

\* mutant of SkipRepository: the strategy is applied to an empty result too
SkipRepository_Never(resolved) == FALSE

\* if tags.is_empty() { continue }
SkipRepository(resolved) == resolved = <<>>

\* mutant of SkipsExecution: the flag is not consulted
SkipsExecution_Never(flag) == FALSE

\* if args.dry_run: the deletions are counted, not executed
SkipsExecution(flag) == flag

\* mutant of ErrorsAfterDelete: a failed deletion is logged but not counted
ErrorsAfterDelete_Swallowed(errors, ok) == errors

\* total_errors after delete_manifest answered
ErrorsAfterDelete(errors, ok) == IF ok THEN errors ELSE errors + 1

\* resolve_all_tags returned Ok(tags): skip an empty repository; otherwise apply
\* the strategy, print the plan, and either count (dry run) or collect the unique
\* digests and send the first delete_manifest
PlanStep ==
    /\ pc = "plan"
    /\ IF SkipRepository(infos)
       THEN /\ NextRepoOrFinish(total_errors)
            /\ UNCHANGED <<clock, plan, warnings, digests_to_delete, delete_requests,
                           total_deleted, total_kept, all_deleted_digests>>
       ELSE \E c \in ClockReads(strategy) :
              LET a == Apply(strategy, repos[ri], NowOf(c), infos)
                  todo == DigestsToDelete(DeleteCandidates(a.plan))
              IN  /\ clock' = c
                  /\ plan' = a.plan
                  /\ warnings' = a.warnings
                  /\ total_kept' = total_kept + Len(a.plan.to_keep)
                  /\ IF SkipsExecution(dry_run)
                     THEN /\ total_deleted' = total_deleted + Len(a.plan.to_delete)
                          /\ all_deleted_digests' =
                                 all_deleted_digests \cup DigestsOf(a.plan.to_delete)
                          /\ NextRepoOrFinish(total_errors)
                          /\ UNCHANGED <<digests_to_delete, delete_requests>>
                     ELSE /\ digests_to_delete' = todo
                          /\ UNCHANGED <<total_deleted, all_deleted_digests>>
                          /\ IF todo = <<>>
                             THEN /\ NextRepoOrFinish(total_errors)
                                  /\ UNCHANGED delete_requests
                             ELSE /\ delete_requests' =
                                         Append(delete_requests,
                                                DeleteRequest(repos[ri], todo[1]))
                                  /\ pc' = "delete"
                                  /\ UNCHANGED <<ri, exit_code>>
    /\ UNCHANGED <<base_url, server, pager, cli, repos, catalog_requests, strategy, dry_run, regTags, tags, si, permits, tpc, tnet, tres, ji,
                   infos, di, deleted_digests_this_repo, total_errors, faults>>

\* delete_manifest answers for digests_to_delete[di + 1]; the next one is sent,
\* or the deleted tags are counted and the iteration ends
DeleteStep(maxFaults) ==
    /\ pc = "delete"
    /\ LET digest == digests_to_delete[di + 1]
       IN \E ok \in BOOLEAN :
            LET errors == ErrorsAfterDelete(total_errors, ok)
                deleted == IF ok THEN deleted_digests_this_repo \cup {digest}
                           ELSE deleted_digests_this_repo
            IN  /\ ~ok => faults < maxFaults
                /\ faults' = IF ok THEN faults ELSE faults + 1
                /\ total_errors' = errors
                /\ deleted_digests_this_repo' = deleted
                /\ all_deleted_digests' =
                       IF ok THEN all_deleted_digests \cup {digest} ELSE all_deleted_digests
                /\ regTags' = IF ok THEN RegistryDelete(regTags, digest) ELSE regTags
                /\ di' = di + 1
                /\ IF di + 1 < Len(digests_to_delete)
                   THEN /\ delete_requests' =
                               Append(delete_requests,
                                      DeleteRequest(repos[ri], digests_to_delete[di + 2]))
                        /\ UNCHANGED <<pc, ri, exit_code, total_deleted>>
                   ELSE /\ total_deleted' =
                               total_deleted + CountDeleted(plan.to_delete, deleted)
                        /\ NextRepoOrFinish(errors)
                        /\ UNCHANGED delete_requests
    /\ UNCHANGED <<base_url, server, pager, cli, repos, catalog_requests, strategy, dry_run, tags, si, permits, tpc, tnet, tres, ji, infos,
                   clock, plan, warnings, digests_to_delete, total_kept>>

\* the command lines of the runs explored: one of each strategy, a pattern
\* that does not compile, and no strategy at all; with and without --repo
RunArgs ==
    { CleanArgs(Some(1), None, None),
      CleanArgs(None, Some(MaxDays), None),
      CleanArgs(None, None, Some(<<"^", "d">>)),
      CleanArgs(None, None, Some(<<"d", "(">>)),
      CleanArgs(None, None, None) }

RunClis == { Cli(r, a) : r \in { None, Some("r1") }, a \in RunArgs }

\* what GET /v2/_catalog may list
Catalogs == { <<>>, Repos }

\* run: the repositories are cli.repo alone, or those list_repositories
\* returns; its error is returned by `?`, an empty list ends the run with Ok
RunStep ==
    /\ pc = "run"
    /\ IF IsSome(cli.repo)
       THEN /\ repos' = <<Unwrap(cli.repo)>>
            /\ pc' = "from_args"
            /\ UNCHANGED <<catalog_requests, exit_code>>
       ELSE /\ catalog_requests' = catalog_requests + 1
            /\ \/ /\ repos' = repos
                  /\ pc' = "catalog_error"
                  /\ exit_code' = Some(1)
               \/ \E catalog \in Catalogs :
                     /\ repos' = catalog
                     /\ pc' = IF catalog = <<>> THEN "no_repos" ELSE "from_args"
                     /\ exit_code' = IF catalog = <<>> THEN Some(0) ELSE None
    /\ UNCHANGED <<base_url, server, pager, cli, strategy, dry_run, ri, regTags, tags, si, permits, tpc, tnet,
                   tres, ji, infos, clock, plan, warnings, digests_to_delete, di,
                   deleted_digests_this_repo, delete_requests, total_deleted,
                   total_kept, total_errors, all_deleted_digests, faults>>

\* run_clean's first statement: let strategy = Strategy::from_args(args)?
FromArgsStep ==
    /\ pc = "from_args"
    /\ LET r == from_args(cli.args)
       IN  IF r.ok
           THEN strategy' = Unwrap(r.val) /\ pc' = "list_tags" /\ exit_code' = None
           ELSE strategy' = strategy /\ pc' = "config_error" /\ exit_code' = Some(1)
    /\ UNCHANGED <<base_url, server, pager, cli, repos, catalog_requests, dry_run, ri, regTags, tags, si,
                   permits, tpc, tnet, tres, ji, infos, clock, plan, warnings,
                   digests_to_delete, di, deleted_digests_this_repo, delete_requests,
                   total_deleted, total_kept, total_errors, all_deleted_digests,
                   faults>>

Init ==
    /\ cli \in RunClis
    /\ repos = <<>>
    /\ catalog_requests = 0
    /\ strategy = None
    /\ dry_run \in BOOLEAN
    /\ pc = "run"
    /\ infos = <<>>
    /\ GatewayIdle
    /\ RunLocalsInit

Next ==
    \/ RunStep
    \/ FromArgsStep
    \/ ListTagsStep(RunContents, MaxFaults)
    \/ Spawn
    \/ \E i \in DOMAIN tpc : TaskRun(i, MaxFaults)
    \/ Join
    \/ PlanStep
    \/ DeleteStep(MaxFaults)

Spec == Init /\ [][Next]_vars

----------------------------------------------------------------------------
(* SpecGate: resolve_all_tags on repositories of up to GateTags tags *)

\* the name of the i-th tag: i letters
GateName(i) == [j \in 1 .. i |-> "t"]

\* how the registry answers for the i-th tag of a flaky repository: every
\* fourth tag fails at get_digest, the next at get_manifest, the next at
\* get_image_config, the next resolves
FlakyAnswer(i) ==
    CASE i % 4 = 1 -> Net("fail", "unsent", "unsent")
      [] i % 4 = 2 -> Net("ok", "fail", "unsent")
      [] i % 4 = 3 -> Net("ok", "ok", "fail")
      [] OTHER -> Net("ok", "ok", "ok")

\* repositories of 0 .. GateTags tags: a healthy one, whose every request
\* succeeds, and a flaky one
GateContents ==
    { [i \in 1 .. n |-> RegEntry(GateName(i), FirstDigest, Some(Some(0)),
                                 {Net("ok", "ok", "ok")})] : n \in 0 .. GateTags }
        \cup { [i \in 1 .. n |-> RegEntry(GateName(i), FirstDigest, Some(Some(0)),
                                          {FlakyAnswer(i)})] : n \in 0 .. GateTags }

\* no budget of failed requests binds under SpecGate
GateFaults == Len(Repos) * (GateTags + 1)

InitGate ==
    /\ cli = Cli(None, CleanArgs(Some(1), None, None))
    /\ repos = Repos
    /\ catalog_requests = 1
    /\ strategy = KeepRecent(1)
    /\ dry_run = TRUE
    /\ pc = "list_tags"
    /\ infos = <<>>
    /\ GatewayIdle
    /\ RunLocalsInit

NextGate ==
    \/ ListTagsStep(GateContents, GateFaults)
    \/ Spawn
    \/ \E i \in DOMAIN tpc : TaskRun(i, GateFaults)
    \/ Join

SpecGate == InitGate /\ [][NextGate]_vars

\* the runtime runs every task that can run and every request is answered:
\* a step that stays possible is eventually taken
SpecGateFair == SpecGate /\ WF_vars(NextGate)

----------------------------------------------------------------------------
(* Claims about Strategy::apply, checked under SpecApply *)

Applied == pc = "applied"
InSeq(s, x) == \E i \in DOMAIN s : s[i] = x
Count(s, x) == Cardinality({ i \in DOMAIN s : s[i] = x })

\* C1: whatever the strategy and the input, no digest of the returned plan is
\* both the digest of a tag in to_delete and the digest of a tag in to_keep.
C1_NoDigestInBoth ==
    Applied => DigestsOf(plan.to_delete) \cap DigestsOf(plan.to_keep) = {}

\* the safety pass rescued a tag and another tag is still deleted
C1_Witness ==
    /\ Applied
    /\ warnings # <<>>
    /\ plan.to_delete # <<>>

\* C3: the returned plan partitions the input: no record is in both sequences,
\* and every record occurs in to_delete and to_keep together exactly as often
\* as in the input (nothing added, duplicated or omitted).
C3_Partition ==
    Applied =>
        \A x \in Range(infos) \cup Range(plan.to_delete) \cup Range(plan.to_keep) :
            /\ Count(plan.to_delete, x) + Count(plan.to_keep, x) = Count(infos, x)
            /\ ~(InSeq(plan.to_delete, x) /\ InSeq(plan.to_keep, x))

\* an input holding the same record twice, split into a non-empty to_delete and
\* a non-empty to_keep
C3_Witness ==
    /\ Applied
    /\ plan.to_delete # <<>>
    /\ plan.to_keep # <<>>
    /\ \E i, j \in DOMAIN infos : i # j /\ infos[i] = infos[j]

\* C6, as claimed: KeepRecent(n) keeps exactly min(n, number of input tags) tags
\* and deletes the rest.
C6_KeepsExactlyMin ==
    (Applied /\ strategy.kind = "KeepRecent") =>
        /\ Len(plan.to_keep) = Min(strategy.n, Len(infos))
        /\ Len(plan.to_delete) = Len(infos) - Min(strategy.n, Len(infos))

\* C6, amended: with k = min(n, number of input tags), to_keep holds k tags
\* followed by every other input tag whose digest is the digest of one of those
\* k (the tags the safety pass moved), and to_delete holds the rest; so to_keep
\* has at least k tags, and exactly k when no other tag shares a digest with them.
C6_KeepsMinPlusRescued ==
    (Applied /\ strategy.kind = "KeepRecent") =>
        LET k == Min(strategy.n, Len(infos))
            all == plan.to_keep \o plan.to_delete
            firstDigests == { plan.to_keep[i].digest : i \in 1 .. k }
        IN  /\ Len(all) = Len(infos)
            /\ Len(plan.to_keep) >= k
            /\ Len(plan.to_keep)
                 = k + Cardinality({ i \in k + 1 .. Len(all) : all[i].digest \in firstDigests })

\* KeepRecent kept more than min(n, len) tags and still deleted one
C6_Witness ==
    /\ Applied
    /\ strategy.kind = "KeepRecent"
    /\ Len(plan.to_keep) > Min(strategy.n, Len(infos))
    /\ plan.to_delete # <<>>

C8_Cutoff == NowOf(clock) - strategy.days * SecondsPerDay * TicksPerSecond

\* C8, as claimed: under OlderThan(d) a tag is in to_delete if and only if its
\* creation time is known and strictly earlier than the cutoff.
C8_DeletedIffOlder ==
    (Applied /\ strategy.kind = "OlderThan") =>
        \A i \in DOMAIN infos :
            InSeq(plan.to_delete, infos[i])
                <=> (IsSome(infos[i].created) /\ Unwrap(infos[i].created) < C8_Cutoff)

\* C8, amended: a tag is in to_delete if and only if its creation time is known
\* and strictly earlier than the cutoff and no input tag of the same digest has
\* an unknown creation time or one at or after the cutoff.
C8_DeletedIffOlderAndUnshared ==
    (Applied /\ strategy.kind = "OlderThan") =>
        \A i \in DOMAIN infos :
            InSeq(plan.to_delete, infos[i])
                <=> /\ IsSome(infos[i].created)
                    /\ Unwrap(infos[i].created) < C8_Cutoff
                    /\ \A j \in DOMAIN infos :
                          infos[j].digest = infos[i].digest
                              => /\ IsSome(infos[j].created)
                                 /\ Unwrap(infos[j].created) < C8_Cutoff

\* a tag created exactly at the cutoff and a deleted tag
C8_Witness ==
    /\ Applied
    /\ strategy.kind = "OlderThan"
    /\ \E i \in DOMAIN infos : infos[i].created = Some(C8_Cutoff)
    /\ plan.to_delete # <<>>

\* C9: under OlderThan no tag of unknown creation time is in to_delete.
C9_UnknownNeverDeleted ==
    (Applied /\ strategy.kind = "OlderThan") =>
        \A j \in DOMAIN plan.to_delete : IsSome(plan.to_delete[j].created)

\* an input with a tag of unknown creation time, and a deleted tag
C9_Witness ==
    /\ Applied
    /\ strategy.kind = "OlderThan"
    /\ \E i \in DOMAIN infos : infos[i].created = None
    /\ plan.to_delete # <<>>

\* C10, as claimed: under Pattern(p) to_delete is exactly the input tags whose
\* name matches p and to_keep exactly those whose name does not.
C10_DeletedIffMatches ==
    (Applied /\ strategy.kind = "Pattern") =>
        \A i \in DOMAIN infos :
            /\ InSeq(plan.to_delete, infos[i]) <=> is_match(strategy.re, infos[i].tag)
            /\ InSeq(plan.to_keep, infos[i]) <=> ~is_match(strategy.re, infos[i].tag)

\* C10, amended: to_delete is exactly the input tags whose name matches p and
\* whose digest is the digest of no input tag whose name does not match;
\* to_keep is exactly the other input tags.
C10_DeletedIffMatchesAndUnshared ==
    (Applied /\ strategy.kind = "Pattern") =>
        \A i \in DOMAIN infos :
            LET deletable ==
                    /\ is_match(strategy.re, infos[i].tag)
                    /\ \A j \in DOMAIN infos :
                          infos[j].digest = infos[i].digest
                              => is_match(strategy.re, infos[j].tag)
            IN  /\ InSeq(plan.to_delete, infos[i]) <=> deletable
                /\ InSeq(plan.to_keep, infos[i]) <=> ~deletable

\* a matching tag was moved to to_keep and another matching tag is deleted
C10_Witness ==
    /\ Applied
    /\ strategy.kind = "Pattern"
    /\ warnings # <<>>
    /\ plan.to_delete # <<>>

\* the tags the strategy's arm put in to_delete whose digest a tag of its
\* to_keep has: those the safety pass moves to to_keep
C16_Rescued ==
    LET t == Tentative(strategy, NowOf(clock), infos)
        shared(tag) == tag.digest \in DigestsOf(t.to_keep)
    IN  SelectSeq(t.to_delete, shared)

\* C16, as claimed: each distinct digest rescued by the safety pass produces
\* exactly one warning, and no other warning is written.
C16_OneWarningPerRescuedDigest ==
    Applied =>
        /\ \A d \in DigestsOf(C16_Rescued) :
              Cardinality({ k \in DOMAIN warnings : warnings[k].digest = d }) = 1
        /\ \A k \in DOMAIN warnings : warnings[k].digest \in DigestsOf(C16_Rescued)

\* C16, amended: every rescued tag produces one warning, in the order of the
\* rescued tags; the warning of the first rescued tag of a digest is the full
\* one ("Digest ... is shared with a kept tag"), the warning of every later tag
\* of that digest is the shorter one: exactly one full warning per rescued digest.
C16_OneFullWarningPerRescuedDigest ==
    Applied =>
        /\ Len(warnings) = Len(C16_Rescued)
        /\ \A k \in DOMAIN warnings :
              /\ warnings[k].tag = C16_Rescued[k].tag
              /\ warnings[k].digest = C16_Rescued[k].digest
              /\ warnings[k].first <=>
                     (\A j \in 1 .. (k - 1) : C16_Rescued[j].digest # C16_Rescued[k].digest)
        /\ \A d \in DigestsOf(C16_Rescued) :
              Cardinality({ k \in DOMAIN warnings :
                               warnings[k].digest = d /\ warnings[k].first }) = 1

\* two tentatively deleted tags share the digest of a kept tag: a full warning
\* and a shorter one were written
C16_Witness ==
    /\ Applied
    /\ Len(warnings) = 2
    /\ warnings[1].digest = warnings[2].digest
    /\ warnings[1].first
    /\ ~warnings[2].first

C17_NoTagBetweenCutoffs(now1, now2) ==
    LET c1 == Cutoff(Min(now1, now2), strategy.days)
        c2 == Cutoff(IF now1 <= now2 THEN now2 ELSE now1, strategy.days)
    IN  \A i \in DOMAIN infos :
            IsSome(infos[i].created) =>
                ~(c1 <= Unwrap(infos[i].created) /\ Unwrap(infos[i].created) < c2)

C26_Tentative == Tentative(strategy, NowOf(clock), infos)

\* C26: the safety pass only moves tags from delete to keep: the final to_keep
\* is the tentative to_keep followed by the moved tags, the final to_delete is
\* the tentative to_delete without them, a tentatively deleted tag is moved if
\* and only if its digest is the digest of a tentatively kept tag, and after
\* the pass no tag left in to_delete has the digest of a tag in to_keep.
C26_SafetyPassOnlyRescues ==
    Applied =>
        LET t == C26_Tentative
            shared(tag) == \E k \in DOMAIN t.to_keep : t.to_keep[k].digest = tag.digest
            unshared(tag) == ~shared(tag)
        IN  /\ SubSeq(plan.to_keep, 1, Len(t.to_keep)) = t.to_keep
            /\ plan.to_keep = t.to_keep \o SelectSeq(t.to_delete, shared)
            /\ plan.to_delete = SelectSeq(t.to_delete, unshared)
            /\ \A i \in DOMAIN plan.to_delete :
                  \A k \in DOMAIN plan.to_keep :
                      plan.to_delete[i].digest # plan.to_keep[k].digest

\* the pass moved one of two tentatively deleted tags and left the other
C26_Witness ==
    /\ Applied
    /\ Len(C26_Tentative.to_delete) = 2
    /\ Len(plan.to_delete) = 1
    /\ Len(plan.to_keep) = Len(C26_Tentative.to_keep) + 1

----------------------------------------------------------------------------
(* Claims about a run of clean, checked under Spec *)

\* C2: every digest passed to delete_manifest for a repository is the digest of
\* a tag of that repository's plan.to_delete and of no tag of its to_keep.
C2_DeletesOnlyUnkeptDigests ==
    \A k \in DOMAIN delete_requests :
        delete_requests[k].repo = plan.repository
            => /\ delete_requests[k].digest \in DigestsOf(plan.to_delete)
               /\ delete_requests[k].digest \notin DigestsOf(plan.to_keep)

\* a delete request is in flight for the second repository, whose plan keeps a
\* tag, after the first repository had a deletion of its own
C2_Witness ==
    /\ pc = "delete"
    /\ ri = 2
    /\ plan.to_keep # <<>>
    /\ Len(delete_requests) >= 2

\* C5: when list_tags succeeded and resolve_all_tags returns, every task has run
\* to its end, and infos holds exactly one record (with the registry's digest)
\* for each listed tag whose get_digest and get_manifest both succeeded, and
\* none for any other tag.
C5_OneRecordPerResolvedTag ==
    pc = "plan" =>
        /\ \A i \in DOMAIN tags : tpc[i] = "done"
        /\ \A i \in DOMAIN tags :
              Cardinality({ k \in DOMAIN infos : infos[k].tag = tags[i] })
                  = IF tnet[i].digest = "ok" /\ tnet[i].manifest = "ok" THEN 1 ELSE 0
        /\ \A k \in DOMAIN infos :
              \E i \in DOMAIN tags :
                  /\ infos[k].tag = tags[i]
                  /\ infos[k].digest = regTags[i].digest
                  /\ infos[k].repository = repos[ri]

\* resolve_all_tags returned one record of two listed tags: one tag's manifest
\* fetch failed, its sibling was resolved
C5_Witness ==
    /\ pc = "plan"
    /\ Len(tags) = 2
    /\ Len(infos) = 1
    /\ \E i \in DOMAIN tags : tnet[i].manifest = "fail"

\* the digests sent to delete_manifest for the repository of the current plan,
\* in the order they were sent
SentDigests ==
    LET mine(q) == q.repo = plan.repository
        sent == SelectSeq(delete_requests, mine)
    IN  [k \in DOMAIN sent |-> sent[k].digest]

\* the positions of plan.to_delete that hold the first tag of their digest
FirstOfDigest ==
    { i \in DOMAIN plan.to_delete :
        \A j \in 1 .. (i - 1) : plan.to_delete[j].digest # plan.to_delete[i].digest }

\* the iteration of `for repo in repos` that planned is over
RepoDone == pc \in { "list_tags", "exit" } /\ plan # NoPlan

\* C11: in a non-dry-run clean of a repository the delete_manifest requests
\* are the digests of plan.to_delete in plan order with every later repeat of
\* a digest removed: the k-th request carries the digest of the k-th position
\* that first shows its digest; a request is sent only when the one before was
\* answered; when the repository is done every such digest was sent once.
C11_RequestsArePlanOrderDeduplicated ==
    ~dry_run =>
        /\ \A k \in DOMAIN SentDigests :
              \E i \in FirstOfDigest :
                  /\ plan.to_delete[i].digest = SentDigests[k]
                  /\ Cardinality({ j \in FirstOfDigest : j < i }) = k - 1
        /\ pc = "delete" => Len(SentDigests) = di + 1
        /\ RepoDone => Len(SentDigests) = Cardinality(FirstOfDigest)

\* a repository is done whose plan deleted two tags of one digest: one request
\* was sent for them
C11_Witness ==
    /\ ~dry_run
    /\ RepoDone
    /\ Len(plan.to_delete) = 2
    /\ plan.to_delete[1].digest = plan.to_delete[2].digest
    /\ Len(SentDigests) = 1

\* the step in which delete_manifest answers with an error
C12_DeleteFails ==
    /\ pc = "delete"
    /\ di' = di + 1
    /\ deleted_digests_this_repo' = deleted_digests_this_repo

\* C12: a failed delete_manifest adds exactly one to the error count and does
\* not stop the run: the next unique digest of the plan is sent, or, after the
\* last one, the next repository is processed (or the summary reached); a
\* successful one leaves the error count alone; and when a repository is done
\* every digest of its plan's to_delete was sent exactly once, failures or not.
C12_FailedDeleteCountedRunGoesOn ==
    /\ [][C12_DeleteFails =>
              /\ total_errors' = total_errors + 1
              /\ IF di + 1 < Len(digests_to_delete)
                 THEN /\ pc' = "delete"
                      /\ delete_requests' =
                             Append(delete_requests,
                                    DeleteRequest(repos[ri], digests_to_delete[di + 2]))
                 ELSE IF ri < Len(repos)
                 THEN pc' = "list_tags" /\ ri' = ri + 1 /\ exit_code' = None
                 ELSE pc' = "exit"]_vars
    /\ [][(pc = "delete" /\ di' = di + 1 /\ ~C12_DeleteFails)
              => total_errors' = total_errors]_vars
    /\ [](~dry_run /\ RepoDone =>
              \A d \in DigestsOf(plan.to_delete) :
                  Cardinality({ k \in DOMAIN SentDigests : SentDigests[k] = d }) = 1)

\* the first of two deletions of a repository failed, the second was sent and
\* succeeded
C12_Witness ==
    /\ ~dry_run
    /\ RepoDone
    /\ Len(SentDigests) = 2
    /\ deleted_digests_this_repo = { SentDigests[2] }
    /\ total_errors >= 1

\* C13: when the summary is reached the error count is the number of failed
\* tag resolutions, failed repository resolutions and failed deletions of the
\* run, and the process exits non-zero exactly when there was one.
C13_EveryFailureCountedExitNonZero ==
    pc = "exit" =>
        /\ total_errors = faults
        /\ exit_code = Some(1) <=> faults > 0

\* C14: when the command line selects no strategy or a pattern that does not
\* compile, no request is sent to the registry: the run ends with the
\* configuration error first, with --repo or without.
C14_ConfigErrorBeforeAnyRequest ==
    ~from_args(cli.args).ok =>
        /\ catalog_requests = 0
        /\ pc \in { "run", "from_args", "config_error" }

\* C15: with the dry-run flag set no delete_manifest request is ever sent, and
\* the registry still holds the tags it listed.
C15_DryRunDeletesNothing ==
    dry_run =>
        /\ delete_requests = <<>>
        /\ pc \notin { "run", "from_args" } =>
               tags = [i \in DOMAIN regTags |-> regTags[i].tag]

\* a dry run planned the deletion of a tag and went on
C15_Witness ==
    /\ dry_run
    /\ RepoDone
    /\ plan.to_delete # <<>>
    /\ total_deleted > 0

\* C18: a task whose get_digest and get_manifest succeeded and whose creation
\* time could not be had (the image-config fetch failed, the manifest has no
\* config, or the config has no created field) returns Ok with the tag, its
\* digest and created None.
C18_ConfigFailureKeepsTag ==
    pc \in { "spawn", "join", "plan" } =>
        \A i \in DOMAIN tpc :
            (/\ tpc[i] = "done"
             /\ tnet[i].digest = "ok"
             /\ tnet[i].manifest = "ok"
             /\ \/ tnet[i].config = "fail"
                \/ regTags[i].config = None
                \/ regTags[i].config = Some(None))
                => tres[i] = Ok(TagInfo(repos[ri], tags[i], regTags[i].digest, None))

\* resolve_all_tags returned the record, created unknown, of a tag whose
\* image-config fetch failed
C18_Witness ==
    /\ pc = "plan"
    /\ \E i \in DOMAIN tags :
          /\ tnet[i].config = "fail"
          /\ \E k \in DOMAIN infos : infos[k].tag = tags[i] /\ infos[k].created = None

\* C19: when list_tags returned no tag, no task was spawned and nothing was
\* resolved, and run_clean's next step computes no plan, sends no deletion,
\* leaves the error count alone and goes to the next repository (or to the
\* summary after the last).
C19_EmptyRepositorySkipped ==
    [][(pc = "plan" /\ tags = <<>>) =>
          /\ tpc = <<>>
          /\ si = 0
          /\ infos = <<>>
          /\ plan' = NoPlan
          /\ delete_requests' = delete_requests
          /\ digests_to_delete' = <<>>
          /\ total_errors' = total_errors
          /\ IF ri < Len(repos)
             THEN pc' = "list_tags" /\ ri' = ri + 1 /\ exit_code' = None
             ELSE pc' = "exit"]_vars

\* the first repository had no tag and was skipped without an error
C19_Witness ==
    /\ pc = "list_tags"
    /\ ri = 2
    /\ tags = <<>>
    /\ total_errors = 0
    /\ faults = 0

\* C20: when resolve_all_tags fails for a repository, one error is counted,
\* no plan is computed and no deletion sent for it, and the next repository
\* (or the summary) is reached with the strategy, the flag, the repositories
\* and the totals of deleted and kept tags as they were and the locals of the
\* iteration as a new iteration starts with.
C20_FailedRepositorySkipped ==
    [][(pc = "list_tags" /\ total_errors' # total_errors) =>
          /\ total_errors' = total_errors + 1
          /\ plan' = NoPlan
          /\ infos' = <<>>
          /\ digests_to_delete' = <<>>
          /\ deleted_digests_this_repo' = {}
          /\ delete_requests' = delete_requests
          /\ UNCHANGED <<strategy, dry_run, repos, total_deleted, total_kept,
                         all_deleted_digests>>
          /\ IF ri < Len(repos)
             THEN pc' = "list_tags" /\ ri' = ri + 1 /\ exit_code' = None
             ELSE pc' = "exit"]_vars

\* the first repository's resolution failed and the second repository's first
\* deletion is in flight
C20_Witness ==
    /\ pc = "delete"
    /\ ri = 2
    /\ di = 0
    /\ total_errors = 1
    /\ faults = 1
    /\ \A k \in DOMAIN delete_requests : delete_requests[k].repo = repos[2]

\* the listed tags the registry no longer holds
C27_Destroyed ==
    { i \in DOMAIN tags : \A k \in DOMAIN regTags : regTags[k].tag # tags[i] }

\* C27: in a non-dry-run clean every tag removed from the registry by the
\* executed deletions is a tag of the repository's plan.to_delete.
C27_OnlyPlannedTagsDestroyed ==
    (~dry_run /\ pc \in { "delete", "list_tags", "exit" } /\ plan # NoPlan) =>
        \A i \in C27_Destroyed :
            \E k \in DOMAIN plan.to_delete : plan.to_delete[k].tag = tags[i]

\* C24: repositories are processed one at a time and a repository's tasks
\* are over before it is planned: a resolution task runs only while
\* resolve_all_tags spawns or joins; when the plan is computed and while a
\* delete request is in flight every task spawned has finished; the request
\* in flight is one of the current repository, and every request of another
\* repository was sent before it.
C24_OneRepositoryAtATime ==
    /\ InFlight # {} => pc \in { "spawn", "join" }
    /\ pc \in { "plan", "delete" } =>
           \A i \in DOMAIN tpc : tpc[i] = "done"
    /\ plan # NoPlan => \A i \in DOMAIN tpc : tpc[i] = "done"
    /\ pc = "delete" =>
           /\ delete_requests[Len(delete_requests)].repo = repos[ri]
           /\ \A k, m \in DOMAIN delete_requests :
                 (/\ delete_requests[k].repo # repos[ri]
                  /\ delete_requests[m].repo = repos[ri]) => k < m

\* a delete request of the second repository is in flight, both its tags
\* resolved, after the first repository had deletions of its own
C24_Witness ==
    /\ pc = "delete"
    /\ ri = 2
    /\ Len(tags) = 2
    /\ \E k \in DOMAIN delete_requests : delete_requests[k].repo = repos[1]

----------------------------------------------------------------------------
(* Claims about the concurrency gate, checked under SpecGate *)

\* C4: at every moment at most 10 resolution tasks are in flight (spawned and
\* not yet past their last request), however many tags the repository has.
C4_AtMostTenInFlight ==
    Cardinality({ i \in DOMAIN tpc : tpc[i] = "running" }) <= 10

\* ten tasks are in flight and the spawn loop waits for a permit with an
\* eleventh tag still to dispatch
C4_Witness ==
    /\ pc = "spawn"
    /\ Len(tags) > 10
    /\ si = 10
    /\ permits = 0
    /\ Cardinality({ i \in DOMAIN tpc : tpc[i] = "running" }) = 10

\* task j has completed while task i, spawned before it, is still running
C23_Overtakes(i, j) ==
    /\ i < j
    /\ j \in DOMAIN tpc
    /\ tpc[i] = "running"
    /\ tpc[j] = "done"

\* the record of tag i stands before the record of tag j in infos
C23_Precedes(i, j) ==
    /\ i \in DOMAIN tags
    /\ j \in DOMAIN tags
    /\ \E a, b \in DOMAIN infos :
          a < b /\ infos[a].tag = tags[i] /\ infos[b].tag = tags[j]

\* C23, as claimed: the results are collected in the order the tasks complete:
\* once a task has completed before a task spawned earlier, its record never
\* stands behind that task's record in the sequence resolve_all_tags returns.
C23_CollectedInCompletionOrder ==
    \A i, j \in 1 .. GateTags :
        [](C23_Overtakes(i, j) => [](pc = "plan" => ~C23_Precedes(i, j)))

\* the tags whose tasks returned Ok among the first n listed, in list order
C23_ResolvedUpTo(n) ==
    LET ok(i) == tres[i].ok
        idx == SelectSeq([i \in 1 .. n |-> i], ok)
    IN  [k \in DOMAIN idx |-> tags[idx[k]]]

\* C23, amended: the results are collected in the order the tasks were
\* spawned, which is the order of list_tags: at every moment of the join loop,
\* and when resolve_all_tags returns, infos holds the records of the resolved
\* tags among the handles joined so far, in list_tags order, whatever the
\* order in which the tasks completed.
C23_CollectedInSpawnOrder ==
    pc \in { "join", "plan" } =>
        [k \in DOMAIN infos |-> infos[k].tag] = C23_ResolvedUpTo(ji)

\* the second task has completed while the first is still running
C23_Witness ==
    /\ pc = "join"
    /\ Len(tags) >= 2
    /\ tpc[1] = "running"
    /\ tpc[2] = "done"
    /\ tres[2].ok

\* C25: resolve_all_tags does not deadlock on its gate: once the spawn loop
\* has started, every tag is eventually dispatched, every task finishes and
\* gives its permit back, whatever its requests answered, and the call
\* returns with all permits in the semaphore.
C25_GateNeverDeadlocks ==
    (pc = "spawn") ~>
        (/\ pc = "plan"
         /\ si = Len(tags)
         /\ permits = Permits
         /\ \A i \in DOMAIN tpc : tpc[i] = "done")

\* resolve_all_tags has returned for a repository of more tags than permits,
\* some of whose tasks failed, with every permit back
C25_Witness ==
    /\ pc = "plan"
    /\ Len(tags) > Permits
    /\ si = Len(tags)
    /\ permits = Permits
    /\ \E i \in DOMAIN tres : ~tres[i].ok

----------------------------------------------------------------------------
(* SpecList: RegistryClient::new, then resolve_url on one link, or one
   paginated listing, list_repositories or list_tags, against a registry that
   serves up to MaxPages pages *)

\* the most pages a registry serves for one listing
MaxPages == 3

\* the most requests of one listing that are followed
MaxRequests == 5

\* the --registry values a client is built from
RawUrls ==
    {<<"h", "t", "t", "p", ":", "/", "/", "h">>,
     <<"h", "t", "t", "p", ":", "/", "/", "h", "/">>,
     <<"h", "t", "t", "p", ":", "/", "/", "h", "/", "/">>,
     <<"h", "t", "t", "p", "s", ":", "/", "/", "h">>,
     <<"/">>,
     <<>>}

\* the links resolve_url is given
Links ==
    {<<"/", "p", "2">>,
     <<"p", "2">>,
     <<"h", "t", "t", "p", ":", "/", "/", "o", "/", "p", "2">>,
     <<"h", "t", "t", "p", "s", ":", "/", "/", "o", "/", "p", "2">>,
     <<"h", "t", "t", "p", ":", "/", "p", "2">>,
     <<"h", "t", "t", "p", "s", ":", "/", "p", "2">>,
     <<"H", "T", "T", "P", ":", "/", "/", "o">>,
     <<"f", "t", "p", ":", "/", "/", "o", "/", "p">>,
     <<"/", "/", "o", "/", "p">>,
     <<>>}

\* what a page can hold: "tags": null (list_tags only), or one or two names
PageItems(fn) ==
    (IF fn = "list_tags" THEN {None} ELSE {}) \cup {Some(<<"a">>), Some(<<"b", "c">>)}

\* the kinds of Link header a registry sends
LinkKinds == {"rel", "abs", "prev", "prev_next", "none"}

\* the kinds that name a next page
NextKinds == {"rel", "abs", "prev_next"}

\* the registries: n pages, every page but the last with any kind of Link
\* header (the first has no previous page to name before its next), the last
\* with none that names a next page
Servers(fn) ==
    UNION {
        {[k \in 1 .. n |-> Page(fn, k, items[k], kinds[k])] :
            items \in [1 .. n -> PageItems(fn)],
            kinds \in {f \in [1 .. n -> LinkKinds] :
                          f[n] \notin NextKinds /\ f[1] # "prev_next"}} :
        n \in 1 .. MaxPages}

InitList ==
    /\ \E raw \in RawUrls :
        cli = [Cli(None, CleanArgs(None, None, None)) EXCEPT !.registry = raw]
    /\ base_url = <<>>
    /\ \/ /\ server = <<>>
          /\ \E link \in Links : pager = Pager("resolve_url", link, <<>>, <<>>, None)
       \/ \E fn \in {"list_repositories", "list_tags"} :
            /\ server \in Servers(fn)
            /\ pager = Pager(fn, <<>>, <<>>, <<>>, None)
    /\ repos = <<>>
    /\ catalog_requests = 0
    /\ strategy = None
    /\ dry_run = TRUE
    /\ pc = "new"
    /\ infos = <<>>
    /\ RunLocalsInit

\* RegistryClient::new(&cli.registry); a listing then builds its first URL
NewClientStep ==
    /\ pc = "new"
    /\ base_url' = NewClient(cli.registry)
    /\ IF pager.fn = "resolve_url"
       THEN pager' = pager /\ pc' = "resolve"
       ELSE /\ pager' = [pager EXCEPT !.url = FirstUrl(pager.fn, base_url')]
            /\ pc' = "list_loop"
    /\ UNCHANGED <<server, cli>>
    /\ UNCHANGED <<repos, catalog_requests, strategy, dry_run, ri, regTags, tags, si,
                   permits, tpc, tnet, tres, ji, infos, clock, plan, warnings,
                   digests_to_delete, di, deleted_digests_this_repo, delete_requests,
                   total_deleted, total_kept, total_errors, all_deleted_digests,
                   faults, exit_code>>

\* self.resolve_url(&link)
ResolveUrlStep ==
    /\ pc = "resolve"
    /\ pager' = [pager EXCEPT !.result = Some(resolve_url(base_url, pager.url))]
    /\ pc' = "resolved"
    /\ UNCHANGED <<base_url, server, cli>>
    /\ UNCHANGED <<repos, catalog_requests, strategy, dry_run, ri, regTags, tags, si,
                   permits, tpc, tnet, tres, ji, infos, clock, plan, warnings,
                   digests_to_delete, di, deleted_digests_this_repo, delete_requests,
                   total_deleted, total_kept, total_errors, all_deleted_digests,
                   faults, exit_code>>

\* the listing ends with an error: the ? after send() or after json()
ListFails ==
    /\ pager' = [pager EXCEPT !.fetched = Append(@, pager.url), !.result = Some(Err)]
    /\ pc' = "list_error"

\* one turn of the loop of list_repositories or of list_tags: GET url; the
\* request fails, or the body is not the listing's JSON (no page is served
\* at url), or the page's items are gathered and the loop goes on at the next
\* link or breaks
ListPageStep ==
    /\ pc = "list_loop"
    /\ Len(pager.fetched) < MaxRequests
    /\ \/ ListFails
       \/ LET served == {k \in DOMAIN server : server[k].url = pager.url}
          IN  IF served = {}
              THEN ListFails
              ELSE LET page == server[CHOOSE k \in served : TRUE]
                       next_link == parse_next_link(page.link)
                       acc == IF IsSome(page.items)
                              THEN extend(pager.acc, Unwrap(page.items))
                              ELSE pager.acc
                   IN  IF IsSome(next_link)
                       THEN /\ pager' = [pager EXCEPT
                                            !.url = resolve_url(base_url, Unwrap(next_link)),
                                            !.acc = acc,
                                            !.fetched = Append(@, pager.url)]
                            /\ pc' = pc
                       ELSE /\ pager' = [pager EXCEPT
                                            !.acc = acc,
                                            !.fetched = Append(@, pager.url),
                                            !.result = Some(Ok(acc))]
                            /\ pc' = "listed"
    /\ UNCHANGED <<base_url, server, cli>>
    /\ UNCHANGED <<repos, catalog_requests, strategy, dry_run, ri, regTags, tags, si,
                   permits, tpc, tnet, tres, ji, infos, clock, plan, warnings,
                   digests_to_delete, di, deleted_digests_this_repo, delete_requests,
                   total_deleted, total_kept, total_errors, all_deleted_digests,
                   faults, exit_code>>

NextList ==
    \/ NewClientStep
    \/ ResolveUrlStep
    \/ ListPageStep

SpecList == InitList /\ [][NextList]_vars

----------------------------------------------------------------------------
(* Claims about the gateway's URLs and listings, checked under SpecList *)

\* the last page a listing is to fetch: the first without a next link
C21_Last ==
    CHOOSE k \in DOMAIN server :
        /\ server[k].kind \notin NextKinds
        /\ \A j \in 1 .. (k - 1) : server[j].kind \in NextKinds

\* the items of pages 1 .. n in page order, a null page giving none
RECURSIVE C21_Concat(_)
C21_Concat(n) ==
    IF n = 0 THEN <<>>
    ELSE C21_Concat(n - 1) \o (IF server[n].items = None THEN <<>> ELSE server[n].items[1])

C21_Urls(n) == [k \in 1 .. n |-> server[k].url]

\* C21: list_repositories and list_tags follow rel="next" links until a
\* response has none and return the concatenation of all pages' items in page
\* order, a page whose tags field is null contributing nothing; nothing is
\* returned before the last page has been fetched
C21_ListingIsAllPagesInOrder ==
    pager.fn \in {"list_repositories", "list_tags"} =>
        /\ pc = "listed" =>
            /\ pager.result = Some(Ok(C21_Concat(C21_Last)))
            /\ pager.fetched = C21_Urls(C21_Last)
        /\ pc = "list_loop" =>
            /\ pager.result = None
            /\ Len(pager.fetched) < C21_Last
            /\ pager.fetched = C21_Urls(Len(pager.fetched))
            /\ pager.acc = C21_Concat(Len(pager.fetched))
        /\ pc = "list_error" => pager.result = Some(Err)

\* every Link header of the registry is a single link
C21_SingleLinks == \A k \in DOMAIN server : server[k].kind # "prev_next"

\* the listing is all pages in order when every response carries one link at
\* most
C21_SingleLinkListingIsAllPagesInOrder ==
    C21_SingleLinks => C21_ListingIsAllPagesInOrder

\* list_tags has returned after three pages, one of them with null tags, the
\* first link relative and the second absolute
C21_Witness ==
    /\ pc = "listed"
    /\ pager.fn = "list_tags"
    /\ Len(pager.fetched) = 3
    /\ server[1].kind = "rel"
    /\ server[2].kind = "abs"
    /\ \E k \in 1 .. 3 : server[k].items = None
    /\ Len(Unwrap(pager.result).val[1]) >= 3

\* the registry URL without its trailing slashes
C22_Stripped(raw) ==
    CHOOSE b \in {SubSeq(raw, 1, k) : k \in 0 .. Len(raw)} :
        /\ b = <<>> \/ b[Len(b)] # "/"
        /\ \A j \in (Len(b) + 1) .. Len(raw) : raw[j] = "/"

C22_IsAbsolute(link) ==
    \/ Len(link) >= 7 /\ SubSeq(link, 1, 7) = <<"h", "t", "t", "p", ":", "/", "/">>
    \/ Len(link) >= 8 /\ SubSeq(link, 1, 8) = <<"h", "t", "t", "p", "s", ":", "/", "/">>

\* C22: resolve_url returns a link that begins with http:// or https://
\* unchanged, and any other link as the base URL, trailing slashes stripped,
\* followed by the link
C22_AbsoluteUnchangedElseJoined ==
    pc = "resolved" =>
        pager.result = Some(IF C22_IsAbsolute(pager.url)
                            THEN pager.url
                            ELSE C22_Stripped(cli.registry) \o pager.url)

\* a relative link has been resolved by a client built from a URL that ends
\* in slashes
C22_Witness ==
    /\ pc = "resolved"
    /\ cli.registry # <<>>
    /\ cli.registry[Len(cli.registry)] = "/"
    /\ Len(cli.registry) > 1
    /\ ~C22_IsAbsolute(pager.url)
    /\ pager.url # <<>>
    /\ Len(Unwrap(pager.result)) = Len(pager.url) + Len(cli.registry) - 1

\* an https:// link has been resolved
C22_WitnessAbsolute ==
    /\ pc = "resolved"
    /\ Len(pager.url) >= 8
    /\ SubSeq(pager.url, 1, 8) = <<"h", "t", "t", "p", "s", ":", "/", "/">>
    /\ pager.result = Some(pager.url)

====
